---- MODULE Spec2Model ----
(***************************************************************************)
(* Cross-file class resolution of componentsjs-generator: ClassLoader      *)
(* (getClassElements, loadClassDeclaration, getSuperClassName,             *)
(* getSuperInterfaceNames, collectGenericTypes) over ESTree-shaped files.  *)
(***************************************************************************)
EXTENDS Integers, Sequences, FiniteSets, TLC

VARIABLES
    cache,      \* parsed files: path -> <<>> (not parsed yet) or <<parse result>>
    request,    \* per request id: <<>> (idle) or <<[ref, ci]>>
    stack,      \* per request id: the pending loadClassDeclaration calls, outermost first
    ret,        \* per request id: <<>> or <<completion>> travelling to the awaiting call
    outcome,    \* per request id: <<>> or <<completion>> the request's promise settled with
    lastCall,   \* per request id: <<>> or <<the call that completed last, with its completion>>
    exFile, exBody, exPos, exElements, exPrev, exError,  \* one getClassElements pass
    heritage,   \* <<>> or <<a declaration, its file and what the heritage getter gave>>
    chain,      \* the hierarchy chain built so far, most derived first
    chainResult \* <<>> or <<completion>> of the chain under construction

vars == <<cache, request, stack, ret, outcome, lastCall,
          exFile, exBody, exPos, exElements, exPrev, exError,
          heritage, chain, chainResult>>

resolverVars == <<cache, request, stack, ret, outcome, lastCall>>
extractVars == <<exFile, exBody, exPos, exElements, exPrev, exError>>
chainVars == <<chain, chainResult>>
restVars == <<extractVars, heritage, chainVars>>

-----------------------------------------------------------------------------
(* Small helpers for JavaScript objects used as string-keyed records.      *)

EmptyRecord == [k \in {} |-> <<>>]

Put(rec, key, value) ==
    [k \in DOMAIN rec \cup {key} |-> IF k = key THEN value ELSE rec[k]]

Last(s) == s[Len(s)]

Front(s) == SubSeq(s, 1, Len(s) - 1)

-----------------------------------------------------------------------------
(* Paths are sequences of segments; Path.dirname and Path.join.            *)

RECURSIVE Normalize(_, _)
Normalize(todo, done) ==
    IF todo = <<>> THEN done
    ELSE LET s == Head(todo) IN
         IF s = "." THEN Normalize(Tail(todo), done)
         ELSE IF s = ".." /\ done # <<>> /\ Last(done) # ".."
              THEN Normalize(Tail(todo), Front(done))
              ELSE Normalize(Tail(todo), Append(done, s))

PathDirname(path) == IF Len(path) <= 1 THEN <<".">> ELSE Front(path)

PathJoin(dir, specifier) == Normalize(dir \o specifier, <<>>)

-----------------------------------------------------------------------------
(* ESTree nodes.  Optional children are sequences of length 0 or 1; an     *)
(* absent identifier is the empty string.                                  *)

NoId == ""

Loc(line, column) == [line |-> line, column |-> column]

ClassDeclaration(id) ==
    [type |-> "ClassDeclaration", id |-> id, abstract |-> FALSE, superClass |-> <<>>,
     typeParameters |-> <<>>, comment |-> "", loc |-> Loc(1, 0)]

TSInterfaceDeclaration(id) ==
    [type |-> "TSInterfaceDeclaration", id |-> id, extends |-> <<>>,
     typeParameters |-> <<>>, comment |-> "", loc |-> Loc(1, 0)]

ExportNamedDeclaration(declaration, source, specifiers) ==
    [type |-> "ExportNamedDeclaration", declaration |-> declaration, source |-> source,
     specifiers |-> specifiers]

ExportAllDeclaration(source) == [type |-> "ExportAllDeclaration", source |-> source]

ImportDeclaration(source, specifiers) ==
    [type |-> "ImportDeclaration", source |-> source, specifiers |-> specifiers]

\* Any other declaration or top-level statement, e.g. `const x = 1`.
VariableDeclaration == [type |-> "VariableDeclaration"]

\* `export default class {}`
ExportDefaultDeclaration(declaration) ==
    [type |-> "ExportDefaultDeclaration", declaration |-> declaration]

Literal(value) == <<[type |-> "Literal", value |-> value]>>

ExportSpecifier(local, exported) ==
    [type |-> "ExportSpecifier", local |-> local, exported |-> exported]

ImportSpecifier(imported, local) ==
    [type |-> "ImportSpecifier", local |-> local, imported |-> imported]

ImportDefaultSpecifier(local) == [type |-> "ImportDefaultSpecifier", local |-> local]

Identifier(name, loc) == [type |-> "Identifier", name |-> name, loc |-> loc]

\* `object.property`, each side given by its node type
MemberExpression(object, property, loc) ==
    [type |-> "MemberExpression", object |-> [type |-> object],
     property |-> [type |-> property], loc |-> loc]

CallExpression(loc) == [type |-> "CallExpression", loc |-> loc]

-----------------------------------------------------------------------------
(* Errors: the `Error` objects the code throws, by message template.       *)

Error(kind, name, fileName, loc, considerInterfaces) ==
    [kind |-> kind, name |-> name, fileName |-> fileName, line |-> loc.line,
     column |-> loc.column, considerInterfaces |-> considerInterfaces]

NoLoc == Loc(0, 0)

-----------------------------------------------------------------------------
(* getClassElements: one pass over ast.body.                               *)

NoElements ==
    [exportedClasses |-> EmptyRecord, exportedInterfaces |-> EmptyRecord,
     exportedImportedElements |-> EmptyRecord, exportedImportedAll |-> <<>>,
     exportedUnknowns |-> EmptyRecord, declaredClasses |-> EmptyRecord,
     declaredInterfaces |-> EmptyRecord, importedElements |-> EmptyRecord]

IsStringLiteral(source) == source # <<>> /\ source[1].type = "Literal"

RECURSIVE PutExportedImported(_, _, _, _)
PutExportedImported(rec, specifiers, fileName, source) ==
    IF specifiers = <<>> THEN rec
    ELSE PutExportedImported(
            Put(rec, Head(specifiers).exported,
                [localName |-> Head(specifiers).local,
                 fileName |-> PathJoin(PathDirname(fileName), source[1].value)]),
            Tail(specifiers), fileName, source)

RECURSIVE PutExportedUnknowns(_, _)
PutExportedUnknowns(rec, specifiers) ==
    IF specifiers = <<>> THEN rec
    ELSE PutExportedUnknowns(Put(rec, Head(specifiers).exported, Head(specifiers).local),
                             Tail(specifiers))

RECURSIVE PutImported(_, _, _, _)
PutImported(rec, specifiers, fileName, source) ==
    IF specifiers = <<>> THEN rec
    ELSE PutImported(
            IF Head(specifiers).type = "ImportSpecifier"
            THEN Put(rec, Head(specifiers).local,
                     [localName |-> Head(specifiers).imported,
                      fileName |-> PathJoin(PathDirname(fileName), source[1].value)])
            ELSE rec,
            Tail(specifiers), fileName, source)

\* As ClassifyStatement, with a source-less `export { A as B }` recorded as a
\* re-export of A from the file itself.
ClassifyStatementChasingUnknowns(el, fileName, statement) ==
    LET ok(e) == [elements |-> e, error |-> <<>>]
        decl == statement.declaration
    IN
    IF statement.type = "ExportNamedDeclaration" THEN
        IF decl # <<>> /\ decl[1].type = "ClassDeclaration" THEN
            IF decl[1].id = NoId
            THEN [elements |-> <<>>,
                  error |-> <<Error("ExportParsingFailure", NoId, fileName,
                                    decl[1].loc, FALSE)>>]
            ELSE ok([el EXCEPT !.exportedClasses = Put(@, decl[1].id, decl[1])])
        ELSE IF decl # <<>> /\ decl[1].type = "TSInterfaceDeclaration" THEN
            ok([el EXCEPT !.exportedInterfaces = Put(@, decl[1].id, decl[1])])
        ELSE IF IsStringLiteral(statement.source) THEN
            ok([el EXCEPT !.exportedImportedElements =
                    PutExportedImported(@, statement.specifiers, fileName, statement.source)])
        ELSE
            ok([el EXCEPT !.exportedImportedElements =
                    PutExportedImported(@, statement.specifiers, fileName,
                                        Literal(<<".", Last(fileName)>>))])
    ELSE IF statement.type = "ExportAllDeclaration" THEN
        IF IsStringLiteral(statement.source)
        THEN ok([el EXCEPT !.exportedImportedAll =
                    Append(@, PathJoin(PathDirname(fileName), statement.source[1].value))])
        ELSE ok(el)
    ELSE IF statement.type = "ClassDeclaration" /\ statement.id # NoId THEN
        ok([el EXCEPT !.declaredClasses = Put(@, statement.id, statement)])
    ELSE IF statement.type = "TSInterfaceDeclaration" /\ statement.id # NoId THEN
        ok([el EXCEPT !.declaredInterfaces = Put(@, statement.id, statement)])
    ELSE IF statement.type = "ImportDeclaration" /\ IsStringLiteral(statement.source) THEN
        ok([el EXCEPT !.importedElements =
                PutImported(@, statement.specifiers, fileName, statement.source)])
    ELSE ok(el)

\* As ClassifyStatement, with an exported class that has no name passed over.
ClassifyStatementSkippingUnnamed(el, fileName, statement) ==
    LET ok(e) == [elements |-> e, error |-> <<>>]
        decl == statement.declaration
    IN
    IF statement.type = "ExportNamedDeclaration" THEN
        IF decl # <<>> /\ decl[1].type = "ClassDeclaration" THEN
            IF decl[1].id = NoId
            THEN ok(el)
            ELSE ok([el EXCEPT !.exportedClasses = Put(@, decl[1].id, decl[1])])
        ELSE IF decl # <<>> /\ decl[1].type = "TSInterfaceDeclaration" THEN
            ok([el EXCEPT !.exportedInterfaces = Put(@, decl[1].id, decl[1])])
        ELSE IF IsStringLiteral(statement.source) THEN
            ok([el EXCEPT !.exportedImportedElements =
                    PutExportedImported(@, statement.specifiers, fileName, statement.source)])
        ELSE
            ok([el EXCEPT !.exportedUnknowns = PutExportedUnknowns(@, statement.specifiers)])
    ELSE IF statement.type = "ExportAllDeclaration" THEN
        IF IsStringLiteral(statement.source)
        THEN ok([el EXCEPT !.exportedImportedAll =
                    Append(@, PathJoin(PathDirname(fileName), statement.source[1].value))])
        ELSE ok(el)
    ELSE IF statement.type = "ClassDeclaration" /\ statement.id # NoId THEN
        ok([el EXCEPT !.declaredClasses = Put(@, statement.id, statement)])
    ELSE IF statement.type = "TSInterfaceDeclaration" /\ statement.id # NoId THEN
        ok([el EXCEPT !.declaredInterfaces = Put(@, statement.id, statement)])
    ELSE IF statement.type = "ImportDeclaration" /\ IsStringLiteral(statement.source) THEN
        ok([el EXCEPT !.importedElements =
                PutImported(@, statement.specifiers, fileName, statement.source)])
    ELSE ok(el)

\* The body of the `for (const statement of ast.body)` loop: the elements after
\* the statement, or the error it throws.
ClassifyStatement(el, fileName, statement) ==
    LET ok(e) == [elements |-> e, error |-> <<>>]
        decl == statement.declaration
    IN
    IF statement.type = "ExportNamedDeclaration" THEN
        IF decl # <<>> /\ decl[1].type = "ClassDeclaration" THEN
            IF decl[1].id = NoId
            THEN [elements |-> <<>>,
                  error |-> <<Error("ExportParsingFailure", NoId, fileName,
                                    decl[1].loc, FALSE)>>]
            ELSE ok([el EXCEPT !.exportedClasses = Put(@, decl[1].id, decl[1])])
        ELSE IF decl # <<>> /\ decl[1].type = "TSInterfaceDeclaration" THEN
            ok([el EXCEPT !.exportedInterfaces = Put(@, decl[1].id, decl[1])])
        ELSE IF IsStringLiteral(statement.source) THEN
            ok([el EXCEPT !.exportedImportedElements =
                    PutExportedImported(@, statement.specifiers, fileName, statement.source)])
        ELSE
            ok([el EXCEPT !.exportedUnknowns = PutExportedUnknowns(@, statement.specifiers)])
    ELSE IF statement.type = "ExportAllDeclaration" THEN
        IF IsStringLiteral(statement.source)
        THEN ok([el EXCEPT !.exportedImportedAll =
                    Append(@, PathJoin(PathDirname(fileName), statement.source[1].value))])
        ELSE ok(el)
    ELSE IF statement.type = "ClassDeclaration" /\ statement.id # NoId THEN
        ok([el EXCEPT !.declaredClasses = Put(@, statement.id, statement)])
    ELSE IF statement.type = "TSInterfaceDeclaration" /\ statement.id # NoId THEN
        ok([el EXCEPT !.declaredInterfaces = Put(@, statement.id, statement)])
    ELSE IF statement.type = "ImportDeclaration" /\ IsStringLiteral(statement.source) THEN
        ok([el EXCEPT !.importedElements =
                PutImported(@, statement.specifiers, fileName, statement.source)])
    ELSE ok(el)

RECURSIVE ClassifyFrom(_, _, _)
ClassifyFrom(el, fileName, body) ==
    IF body = <<>> THEN [elements |-> el, error |-> <<>>]
    ELSE LET one == ClassifyStatement(el, fileName, Head(body)) IN
         IF one.error # <<>> THEN one
         ELSE ClassifyFrom(one.elements, fileName, Tail(body))

GetClassElements(fileName, ast) == ClassifyFrom(NoElements, fileName, ast)

-----------------------------------------------------------------------------
(* Class references and loaded symbols.                                    *)

NoPackage == ""

\* A reference as the callers of loadClassDeclaration build it.
ClassReference(packageName, localName, fileName, fileNameReferenced) ==
    [packageName |-> packageName, localName |-> localName, fileName |-> fileName,
     fileNameReferenced |-> fileNameReferenced]

\* The `{ localName, fileName }` objects getClassElements stores and
\* loadClassDeclaration passes on: they have no other field.
LinkReference(localName, fileName) ==
    ClassReference(NoPackage, localName, fileName, <<>>)

\* As PutGenerics, with a name that is already a key left as it is.
RECURSIVE PutGenericsKeepingFirst(_, _)
PutGenericsKeepingFirst(genericTypes, params) ==
    IF params = <<>> THEN genericTypes
    ELSE PutGenericsKeepingFirst(
            IF Head(params).name \in DOMAIN genericTypes THEN genericTypes
            ELSE Put(genericTypes, Head(params).name, [type |-> Head(params).constraint]),
            Tail(params))

\* collectGenericTypes: type-parameter name -> { type: constraint }.
RECURSIVE PutGenerics(_, _)
PutGenerics(genericTypes, params) ==
    IF params = <<>> THEN genericTypes
    ELSE PutGenerics(Put(genericTypes, Head(params).name, [type |-> Head(params).constraint]),
                     Tail(params))

CollectGenericTypes(classDeclaration) ==
    IF classDeclaration.typeParameters # <<>>
    THEN PutGenerics(EmptyRecord, classDeclaration.typeParameters[1].params)
    ELSE EmptyRecord

\* CommentLoader.getCommentDataFromClassOrInterface(declaration).description
CommentDescription(declaration) == declaration.comment

\* enhanceLoadedWithComment: `comment` is set only for a non-empty description
\* ("" stands for the absent field).
EnhanceLoadedWithComment(classLoaded) ==
    LET description == CommentDescription(classLoaded.declaration) IN
    IF description # "" THEN [classLoaded EXCEPT !.comment = description] ELSE classLoaded

\* `{ type, ...classReference, declaration, ast, abstract, generics }`;
\* `abstract` is <<>> where the object has no such field.
Loaded(type, classReference, declaration, ast) ==
    EnhanceLoadedWithComment(
        [type |-> type,
         packageName |-> classReference.packageName,
         localName |-> classReference.localName,
         fileName |-> classReference.fileName,
         fileNameReferenced |-> classReference.fileNameReferenced,
         declaration |-> declaration,
         ast |-> ast,
         abstract |-> IF type = "class" THEN <<declaration.abstract>> ELSE <<>>,
         generics |-> CollectGenericTypes(declaration),
         comment |-> ""])

Returned(value) == [ok |-> TRUE, value |-> value]

Thrown(error) == [ok |-> FALSE, value |-> error]

-----------------------------------------------------------------------------
(* loadClassDeclaration: which of its branches a call takes in its file.   *)

\* As FirstMatch, with the import links looked at before the local declarations.
FirstMatchLinksFirst(el, localName, considerInterfaces) ==
    IF localName \in DOMAIN el.importedElements THEN "importedElements"
    ELSE IF localName \in DOMAIN el.exportedImportedElements THEN "exportedImportedElements"
    ELSE IF localName \in DOMAIN el.exportedClasses THEN "exportedClasses"
    ELSE IF localName \in DOMAIN el.declaredClasses THEN "declaredClasses"
    ELSE IF considerInterfaces /\ localName \in DOMAIN el.exportedInterfaces
         THEN "exportedInterfaces"
    ELSE IF considerInterfaces /\ localName \in DOMAIN el.declaredInterfaces
         THEN "declaredInterfaces"
    ELSE "exportedImportedAll"

FirstMatch(el, localName, considerInterfaces) ==
    IF localName \in DOMAIN el.exportedClasses THEN "exportedClasses"
    ELSE IF localName \in DOMAIN el.declaredClasses THEN "declaredClasses"
    ELSE IF considerInterfaces /\ localName \in DOMAIN el.exportedInterfaces
         THEN "exportedInterfaces"
    ELSE IF considerInterfaces /\ localName \in DOMAIN el.declaredInterfaces
         THEN "declaredInterfaces"
    ELSE IF localName \in DOMAIN el.importedElements THEN "importedElements"
    ELSE IF localName \in DOMAIN el.exportedImportedElements THEN "exportedImportedElements"
    ELSE "exportedImportedAll"

LocalMatches == {"exportedClasses", "declaredClasses", "exportedInterfaces",
                 "declaredInterfaces"}

-----------------------------------------------------------------------------
(* The files of the package and what the parser may find in them.          *)

Names == {"A", "B"}

Files == {<<"lib", "a">>, <<"lib", "b">>, <<"lib", "c">>}

\* './b', './c' and '../lib/a', as written in a file of lib/
ModuleSpecifiers == {<<".", "b">>, <<".", "c">>, <<"..", "lib", "a">>}

MaxDepth == 7

RequestIds == {"first", "second"}

\* ResolutionContext.parseTypescriptFile settles with the file's AST or fails.
Parsed(ast) == [ok |-> TRUE, ast |-> ast]

ParseFailure == [ok |-> FALSE, ast |-> <<>>]

-----------------------------------------------------------------------------
(* loadClassDeclaration as the calls pending on a request's promise.       *)

\* A pending call: its arguments, where it waits (pc), the index of the subFile
\* it is trying (i), and the errors its `catch` has swallowed so far (caught).
Call(classReference, considerInterfaces) ==
    [ref |-> classReference, ci |-> considerInterfaces, pc |-> "parse", i |-> 0,
     caught |-> <<>>]

Top(r) == Last(stack[r])

Running(r) == stack[r] # <<>> /\ ret[r] = <<>>

AstOf(fileName) == cache[fileName][1].ast

ElementsOf(fileName) == GetClassElements(fileName, AstOf(fileName)).elements

\* The awaited parse of the top call's file has settled with an AST.
Resumed(r) ==
    /\ Running(r)
    /\ Top(r).pc = "parse"
    /\ cache[Top(r).ref.fileName] # <<>>
    /\ cache[Top(r).ref.fileName][1].ok

\* Past the five `if`s of loadClassDeclaration with the given branch taken.
Takes(r, branch) ==
    /\ Resumed(r)
    /\ GetClassElements(Top(r).ref.fileName, AstOf(Top(r).ref.fileName)).error = <<>>
    /\ FirstMatch(ElementsOf(Top(r).ref.fileName), Top(r).ref.localName, Top(r).ci) = branch

\* The top call completes: it leaves the stack and its completion travels on.
Complete(r, completion) ==
    /\ stack' = [stack EXCEPT ![r] = Front(@)]
    /\ ret' = [ret EXCEPT ![r] = <<completion>>]
    /\ lastCall' = [lastCall EXCEPT ![r] =
            <<[call |-> Top(r), completion |-> completion, depth |-> Len(stack[r])]>>]

\* As Recurse, with the nested call always allowed to return interfaces.
RecurseConsideringInterfaces(r, pc, i, target) ==
    /\ Len(stack[r]) < MaxDepth
    /\ stack' = [stack EXCEPT ![r] =
            Append([@ EXCEPT ![Len(@)].pc = pc, ![Len(@)].i = i],
                   Call(target, TRUE))]
    /\ UNCHANGED <<ret, lastCall>>

\* The top call moves to `pc` and calls loadClassDeclaration(target, its own flag).
Recurse(r, pc, i, target) ==
    /\ Len(stack[r]) < MaxDepth
    /\ stack' = [stack EXCEPT ![r] =
            Append([@ EXCEPT ![Len(@)].pc = pc, ![Len(@)].i = i],
                   Call(target, Top(r).ci))]
    /\ UNCHANGED <<ret, lastCall>>

LoadClassDeclaration(r, classReference, considerInterfaces) ==
    /\ request[r] = <<>>
    /\ request' = [request EXCEPT ![r] =
            <<[ref |-> classReference, ci |-> considerInterfaces]>>]
    /\ stack' = [stack EXCEPT ![r] = <<Call(classReference, considerInterfaces)>>]
    /\ UNCHANGED <<cache, ret, outcome, lastCall, restVars>>

ParseTypescriptFile(r, sources) ==
    /\ Running(r)
    /\ Top(r).pc = "parse"
    /\ cache[Top(r).ref.fileName] = <<>>
    /\ \E result \in {Parsed(ast) : ast \in sources} \cup {ParseFailure} :
            cache' = [cache EXCEPT ![Top(r).ref.fileName] = <<result>>]
    /\ UNCHANGED <<request, stack, ret, outcome, lastCall, restVars>>

ThrowParseError(r) ==
    /\ Running(r)
    /\ Top(r).pc = "parse"
    /\ cache[Top(r).ref.fileName] # <<>>
    /\ ~cache[Top(r).ref.fileName][1].ok
    /\ Complete(r, Thrown(Error("ParseError", NoId, Top(r).ref.fileName, NoLoc, FALSE)))
    /\ UNCHANGED <<cache, request, outcome, restVars>>

ThrowExportParsingFailure(r) ==
    /\ Resumed(r)
    /\ LET extracted == GetClassElements(Top(r).ref.fileName, AstOf(Top(r).ref.fileName)) IN
        /\ extracted.error # <<>>
        /\ Complete(r, Thrown(extracted.error[1]))
    /\ UNCHANGED <<cache, request, outcome, restVars>>

ReturnLoaded(r) ==
    /\ \E branch \in LocalMatches :
        /\ Takes(r, branch)
        /\ LET classReference == Top(r).ref
               declaration == ElementsOf(classReference.fileName)[branch][classReference.localName]
               type == IF branch \in {"exportedClasses", "declaredClasses"}
                       THEN "class" ELSE "interface"
           IN Complete(r, Returned(Loaded(type, classReference, declaration,
                                           AstOf(classReference.fileName))))
    /\ UNCHANGED <<cache, request, outcome, restVars>>

FollowImport(r) ==
    /\ Takes(r, "importedElements")
    /\ LET link == ElementsOf(Top(r).ref.fileName).importedElements[Top(r).ref.localName]
       IN Recurse(r, "import", 0, LinkReference(link.localName, link.fileName))
    /\ UNCHANGED <<cache, request, outcome, restVars>>

FollowExportedImport(r) ==
    /\ Takes(r, "exportedImportedElements")
    /\ LET link == ElementsOf(Top(r).ref.fileName).exportedImportedElements[Top(r).ref.localName]
       IN Recurse(r, "exportedImport", 0, LinkReference(link.localName, link.fileName))
    /\ UNCHANGED <<cache, request, outcome, restVars>>

\* At the head of `for (const subFile of exportedImportedAll)`.
AtExportAll(r) ==
    \/ Takes(r, "exportedImportedAll")
    \/ Running(r) /\ Top(r).pc = "loop"

TryExportAll(r) ==
    /\ AtExportAll(r)
    /\ LET subFiles == ElementsOf(Top(r).ref.fileName).exportedImportedAll IN
        /\ Top(r).i < Len(subFiles)
        /\ Recurse(r, "exportAll", Top(r).i + 1,
                   LinkReference(Top(r).ref.localName, subFiles[Top(r).i + 1]))
    /\ UNCHANGED <<cache, request, outcome, restVars>>

\* As ThrowNotFound, with the error naming the reference the request began with.
ThrowNotFoundOfRequest(r) ==
    /\ AtExportAll(r)
    /\ Top(r).i >= Len(ElementsOf(Top(r).ref.fileName).exportedImportedAll)
    /\ Complete(r, Thrown(Error("CouldNotLoad", request[r][1].ref.localName,
                                request[r][1].ref.fileName, NoLoc, Top(r).ci)))
    /\ UNCHANGED <<cache, request, outcome, restVars>>

ThrowNotFound(r) ==
    /\ AtExportAll(r)
    /\ Top(r).i >= Len(ElementsOf(Top(r).ref.fileName).exportedImportedAll)
    /\ Complete(r, Thrown(Error("CouldNotLoad", Top(r).ref.localName, Top(r).ref.fileName,
                                NoLoc, Top(r).ci)))
    /\ UNCHANGED <<cache, request, outcome, restVars>>

\* As ForwardResult, with a failed link treated like a failed wildcard target:
\* the call goes on to its `export *` targets.
ForwardResultFallingBack(r) ==
    /\ stack[r] # <<>> /\ ret[r] # <<>>
    /\ Top(r).pc \in {"import", "exportedImport"}
    /\ \/ ret[r][1].ok /\ Complete(r, ret[r][1])
       \/ /\ ~ret[r][1].ok
          /\ stack' = [stack EXCEPT ![r] = [@ EXCEPT ![Len(@)].pc = "loop"]]
          /\ ret' = [ret EXCEPT ![r] = <<>>]
          /\ UNCHANGED lastCall
    /\ UNCHANGED <<cache, request, outcome, restVars>>

\* `return this.loadClassDeclaration(...)`: the call settles as the nested call did.
ForwardResult(r) ==
    /\ stack[r] # <<>> /\ ret[r] # <<>>
    /\ Top(r).pc \in {"import", "exportedImport"}
    /\ Complete(r, ret[r][1])
    /\ UNCHANGED <<cache, request, outcome, restVars>>

\* `return await this.loadClassDeclaration(...)` inside the try, fulfilled.
ReturnFromExportAll(r) ==
    /\ stack[r] # <<>> /\ ret[r] # <<>>
    /\ Top(r).pc = "exportAll"
    /\ ret[r][1].ok
    /\ Complete(r, ret[r][1])
    /\ UNCHANGED <<cache, request, outcome, restVars>>

\* As CatchIgnore, with the caught error thrown again.
CatchRethrow(r) ==
    /\ stack[r] # <<>> /\ ret[r] # <<>>
    /\ Top(r).pc = "exportAll"
    /\ ~ret[r][1].ok
    /\ Complete(r, ret[r][1])
    /\ UNCHANGED <<cache, request, outcome, restVars>>

\* The same await, rejected: `catch { }` and on to the next subFile.
CatchIgnore(r) ==
    /\ stack[r] # <<>> /\ ret[r] # <<>>
    /\ Top(r).pc = "exportAll"
    /\ ~ret[r][1].ok
    /\ stack' = [stack EXCEPT ![r] =
            [@ EXCEPT ![Len(@)].pc = "loop",
                      ![Len(@)].caught = Append(@, ret[r][1])]]
    /\ ret' = [ret EXCEPT ![r] = <<>>]
    /\ UNCHANGED <<cache, request, outcome, lastCall, restVars>>

\* As Settle, with the result kept in one slot that every request of the loader
\* shares: the caller gets whatever completion is there.
SettleShared(r) ==
    /\ stack[r] = <<>> /\ ret[r] # <<>>
    /\ \E q \in RequestIds :
        /\ ret[q] # <<>>
        /\ outcome' = [outcome EXCEPT ![r] = ret[q]]
    /\ ret' = [ret EXCEPT ![r] = <<>>]
    /\ UNCHANGED <<cache, request, stack, lastCall, restVars>>

\* The outermost call has completed: the caller's promise settles.
Settle(r) ==
    /\ stack[r] = <<>> /\ ret[r] # <<>>
    /\ outcome' = [outcome EXCEPT ![r] = ret[r]]
    /\ ret' = [ret EXCEPT ![r] = <<>>]
    /\ UNCHANGED <<cache, request, stack, lastCall, restVars>>

ResolverStep(r) ==
    \/ ThrowParseError(r)
    \/ ThrowExportParsingFailure(r)
    \/ ReturnLoaded(r)
    \/ FollowImport(r)
    \/ FollowExportedImport(r)
    \/ TryExportAll(r)
    \/ ThrowNotFound(r)
    \/ ForwardResult(r)
    \/ ReturnFromExportAll(r)
    \/ CatchIgnore(r)
    \/ Settle(r)

-----------------------------------------------------------------------------
(* What the files of the package may hold.                                 *)

ExportClass(n) == ExportNamedDeclaration(<<ClassDeclaration(n)>>, <<>>, <<>>)

ExportInterface(n) == ExportNamedDeclaration(<<TSInterfaceDeclaration(n)>>, <<>>, <<>>)

\* `export { local as exported } from 'm'`
ExportFrom(local, exported, m) ==
    ExportNamedDeclaration(<<>>, Literal(m), <<ExportSpecifier(local, exported)>>)

\* `export { local as exported }`
ExportLocal(local, exported) ==
    ExportNamedDeclaration(<<>>, <<>>, <<ExportSpecifier(local, exported)>>)

\* `import { imported as local } from 'm'`
ImportFrom(imported, local, m) ==
    ImportDeclaration(Literal(m), <<ImportSpecifier(imported, local)>>)

ExportAll(m) == ExportAllDeclaration(Literal(m))

LocalStatements ==
    UNION {{ExportClass(n), ClassDeclaration(n), ExportInterface(n), TSInterfaceDeclaration(n)} :
            n \in Names}
    \cup {ExportClass(NoId)}

LinkStatements ==
    {ImportFrom("B", "A", <<".", "b">>), ImportFrom("A", "A", <<".", "c">>),
     ExportFrom("B", "A", <<".", "c">>), ExportFrom("A", "A", <<".", "b">>),
     ExportLocal("A", "B")}
    \cup {ExportAll(m) : m \in ModuleSpecifiers}

\* One statement for each place loadClassDeclaration may find the name A in.
ProvidersOfA ==
    <<ExportClass("A"), ClassDeclaration("A"), ExportInterface("A"),
      TSInterfaceDeclaration("A"), ImportFrom("B", "A", <<".", "b">>),
      ExportFrom("A", "A", <<".", "b">>), ExportAll(<<".", "c">>)>>

Sources ==
    {<<>>}
    \cup {<<s>> : s \in LocalStatements \cup LinkStatements}
    \cup {<<ProvidersOfA[ij[1]], ProvidersOfA[ij[2]]>> :
            ij \in {p \in (DOMAIN ProvidersOfA) \X (DOMAIN ProvidersOfA) : p[1] < p[2]}}
    \cup {<<ExportAll(mn[1]), ExportAll(mn[2])>> :
            mn \in {p \in ModuleSpecifiers \X ModuleSpecifiers : p[1] # p[2]}}
    \cup {<<s, ExportLocal("A", "B")>> : s \in {ExportClass("A"), ClassDeclaration("A")}}

StartReferences ==
    {ClassReference("pkg", n, f, f) : n \in Names, f \in {<<"lib", "a">>}}

-----------------------------------------------------------------------------

InitResolver ==
    /\ cache = [f \in Files |-> <<>>]
    /\ request = [r \in RequestIds |-> <<>>]
    /\ stack = [r \in RequestIds |-> <<>>]
    /\ ret = [r \in RequestIds |-> <<>>]
    /\ outcome = [r \in RequestIds |-> <<>>]
    /\ lastCall = [r \in RequestIds |-> <<>>]

InitExtract ==
    /\ exFile = <<>>
    /\ exBody = <<>>
    /\ exPos = 0
    /\ exElements = NoElements
    /\ exPrev = NoElements
    /\ exError = <<>>

InitHeritage == heritage = <<>>

InitChain == chain = <<>> /\ chainResult = <<>>

Init == InitResolver /\ InitExtract /\ InitHeritage /\ InitChain

Next ==
    \/ \E ref \in StartReferences, ci \in BOOLEAN : LoadClassDeclaration("first", ref, ci)
    \/ ParseTypescriptFile("first", Sources)
    \/ ResolverStep("first")

Spec == Init /\ [][Next]_vars

-----------------------------------------------------------------------------
(* Vocabulary of the properties below.                                     *)

IsParsed(fileName) == cache[fileName] # <<>> /\ cache[fileName][1].ok

Extracts(fileName) ==
    IsParsed(fileName) /\ GetClassElements(fileName, AstOf(fileName)).error = <<>>

\* The places of a file a name can be found in, in the documented order.
ResolutionOrder ==
    <<"exportedClasses", "declaredClasses", "exportedInterfaces", "declaredInterfaces",
      "importedElements", "exportedImportedElements", "exportedImportedAll">>

Offers(el, place, localName, considerInterfaces) ==
    CASE place \in {"exportedClasses", "declaredClasses", "importedElements",
                    "exportedImportedElements"} -> localName \in DOMAIN el[place]
      [] place \in {"exportedInterfaces", "declaredInterfaces"} ->
            considerInterfaces /\ localName \in DOMAIN el[place]
      [] OTHER -> TRUE

DocumentedPlace(call) ==
    LET el == ElementsOf(call.ref.fileName)
        first == CHOOSE i \in DOMAIN ResolutionOrder :
                    /\ Offers(el, ResolutionOrder[i], call.ref.localName, call.ci)
                    /\ \A j \in 1..(i - 1) :
                          ~Offers(el, ResolutionOrder[j], call.ref.localName, call.ci)
    IN ResolutionOrder[first]

\* The call nested in the k-th pending call of request r, if it is still pending.
HasNested(r, k) == k < Len(stack[r])

CompletedOnItsOwn(last) == last.call.pc \in {"parse", "loop"}

-----------------------------------------------------------------------------
\* C1: a call examines its file in the fixed order exported classes, declared
\* classes, exported interfaces and declared interfaces (both only when
\* considerInterfaces), imports, named re-exports, wildcard re-exports, and acts on
\* the first place that has the name: it returns that local declaration, follows
\* that link, or turns to the wildcard targets.
ResolutionOrderHolds ==
    \A r \in RequestIds :
        /\ \A k \in DOMAIN stack[r] :
            LET call == stack[r][k] IN
            call.pc # "parse" =>
                /\ Extracts(call.ref.fileName)
                /\ call.pc = "import" => DocumentedPlace(call) = "importedElements"
                /\ call.pc = "exportedImport" =>
                        DocumentedPlace(call) = "exportedImportedElements"
                /\ call.pc \in {"exportAll", "loop"} =>
                        DocumentedPlace(call) = "exportedImportedAll"
                /\ (call.pc \in {"import", "exportedImport"} /\ HasNested(r, k)) =>
                        LET link == ElementsOf(call.ref.fileName)[DocumentedPlace(call)]
                                        [call.ref.localName]
                        IN /\ stack[r][k + 1].ref.localName = link.localName
                           /\ stack[r][k + 1].ref.fileName = link.fileName
        /\ lastCall[r] # <<>> =>
            LET last == lastCall[r][1]
                call == last.call
            IN (call.pc = "parse" /\ Extracts(call.ref.fileName)) =>
                LET place == DocumentedPlace(call) IN
                IF place \in LocalMatches
                THEN /\ last.completion.ok
                     /\ last.completion.value.declaration =
                            ElementsOf(call.ref.fileName)[place][call.ref.localName]
                     /\ last.completion.value.type =
                            (IF place \in {"exportedClasses", "declaredClasses"}
                             THEN "class" ELSE "interface")
                     /\ last.completion.value.fileName = call.ref.fileName
                     /\ last.completion.value.localName = call.ref.localName
                ELSE /\ place = "exportedImportedAll"
                     /\ ~last.completion.ok

\* A call returned the class its file declares although the file also imports
\* or re-exports the same name.
ResolutionOrderWitness ==
    \E r \in RequestIds :
        /\ lastCall[r] # <<>>
        /\ lastCall[r][1].call.pc = "parse"
        /\ lastCall[r][1].completion.ok
        /\ lastCall[r][1].completion.value.type = "class"
        /\ LET call == lastCall[r][1].call
               el == ElementsOf(call.ref.fileName)
           IN call.ref.localName \in
                DOMAIN el.importedElements \cup DOMAIN el.exportedImportedElements

-----------------------------------------------------------------------------
\* C2: every nested call carries the considerInterfaces flag of the request, so
\* a request made with considerInterfaces = false never settles with an
\* interface, however many links were followed.
FlagPreserved ==
    \A r \in RequestIds :
        /\ \A k \in DOMAIN stack[r] : stack[r][k].ci = request[r][1].ci
        /\ (lastCall[r] # <<>> /\ lastCall[r][1].completion.ok /\ ~request[r][1].ci) =>
                lastCall[r][1].completion.value.type = "class"
        /\ (outcome[r] # <<>> /\ outcome[r][1].ok /\ ~request[r][1].ci) =>
                outcome[r][1].value.type = "class"

\* A request made with considerInterfaces = true settled with an interface that
\* another file declares.
FlagPreservedWitness ==
    \E r \in RequestIds :
        /\ outcome[r] # <<>>
        /\ outcome[r][1].ok
        /\ request[r][1].ci
        /\ outcome[r][1].value.type = "interface"
        /\ outcome[r][1].value.fileName # request[r][1].ref.fileName

-----------------------------------------------------------------------------
\* What loadClassDeclaration returns for a reference to a declaration of the
\* reference's own file.
LoadedDirectly(classReference, considerInterfaces) ==
    LET el == ElementsOf(classReference.fileName)
        place == FirstMatch(el, classReference.localName, considerInterfaces)
    IN Loaded(IF place \in {"exportedClasses", "declaredClasses"} THEN "class"
              ELSE "interface",
              classReference, el[place][classReference.localName],
              AstOf(classReference.fileName))

\* C3: a request that reaches a declaration through any number of import and
\* re-export links settles with the very symbol that a request for the
\* declaration's own reference settles with: same type, localName, fileName,
\* declaration, ast, generics, abstract and the same other reference fields
\* (packageName, fileNameReferenced).
IndirectionTransparency ==
    \A r \in RequestIds :
        (outcome[r] # <<>> /\ outcome[r][1].ok) =>
            LET value == outcome[r][1].value
                asked == request[r][1].ref
            IN value = LoadedDirectly(
                            ClassReference(asked.packageName, value.localName,
                                           value.fileName, asked.fileNameReferenced),
                            request[r][1].ci)

-----------------------------------------------------------------------------
\* C4: a call that turns to its file's wildcard re-exports tries the targets in
\* the order of the `export * from` statements, moves on only past a target
\* whose resolution failed, returns what the first successful target returned
\* without trying the targets after it, and fails only when every target failed.
WildcardOrder ==
    \A r \in RequestIds :
        /\ \A k \in DOMAIN stack[r] :
            LET call == stack[r][k]
                subFiles == ElementsOf(call.ref.fileName).exportedImportedAll
            IN call.pc \in {"exportAll", "loop"} =>
                /\ call.i \in 1..Len(subFiles)
                /\ \A c \in DOMAIN call.caught : ~call.caught[c].ok
                /\ Len(call.caught) = (IF call.pc = "loop" THEN call.i ELSE call.i - 1)
                /\ (call.pc = "exportAll" /\ HasNested(r, k)) =>
                        /\ stack[r][k + 1].ref.fileName = subFiles[call.i]
                        /\ stack[r][k + 1].ref.localName = call.ref.localName
                /\ (call.pc = "exportAll" /\ ~HasNested(r, k)) =>
                        /\ ret[r] # <<>>
                        /\ lastCall[r][1].completion = ret[r][1]
                        /\ lastCall[r][1].call.ref.fileName = subFiles[call.i]
        /\ lastCall[r] # <<>> =>
            LET last == lastCall[r][1]
                call == last.call
            IN /\ call.pc = "exportAll" =>
                    /\ last.completion.ok
                    /\ Len(call.caught) = call.i - 1
               /\ call.pc = "loop" =>
                    /\ ~last.completion.ok
                    /\ call.i = Len(ElementsOf(call.ref.fileName).exportedImportedAll)
                    /\ Len(call.caught) = call.i

\* A call returned what its second wildcard target returned, after the first
\* target had failed to find the name.
WildcardOrderWitness ==
    \E r \in RequestIds :
        /\ lastCall[r] # <<>>
        /\ lastCall[r][1].call.pc = "exportAll"
        /\ lastCall[r][1].completion.ok
        /\ lastCall[r][1].call.i = 2
        /\ lastCall[r][1].call.caught[1].value.kind = "CouldNotLoad"

-----------------------------------------------------------------------------
WellFormedSymbol(value) ==
    /\ value.type \in {"class", "interface"}
    /\ value.declaration.type =
            (IF value.type = "class" THEN "ClassDeclaration" ELSE "TSInterfaceDeclaration")
    /\ value.declaration.id = value.localName
    /\ value.fileName \in Files
    /\ IsParsed(value.fileName)
    /\ value.ast = AstOf(value.fileName)

\* The name is in none of the places of its file that the call may use.
MatchesNothing(call) ==
    LET el == ElementsOf(call.ref.fileName) IN
    \A i \in 1..6 : ~Offers(el, ResolutionOrder[i], call.ref.localName, call.ci)

\* C5: a call whose name is in none of its file's classes, permitted interfaces,
\* imports and named re-exports, and that no wildcard target resolves, fails
\* with the not-found error naming its own reference's name and file; and a
\* call never completes with anything but a whole symbol or an error.
NotFoundError ==
    \A r \in RequestIds :
        lastCall[r] # <<>> =>
            LET last == lastCall[r][1]
                call == last.call
                exhausted ==
                    /\ Extracts(call.ref.fileName)
                    /\ MatchesNothing(call)
                    /\ Len(call.caught) =
                            Len(ElementsOf(call.ref.fileName).exportedImportedAll)
            IN /\ last.completion.ok => WellFormedSymbol(last.completion.value)
               /\ ~last.completion.ok =>
                    last.completion.value.kind \in
                        {"CouldNotLoad", "ParseError", "ExportParsingFailure"}
               /\ (CompletedOnItsOwn(last) /\ exhausted) =>
                    last.completion =
                        Thrown(Error("CouldNotLoad", call.ref.localName, call.ref.fileName,
                                     NoLoc, call.ci))
               /\ (CompletedOnItsOwn(last) /\ ~last.completion.ok
                        /\ last.completion.value.kind = "CouldNotLoad") => exhausted

\* A nested call, asked for another name than the request's, failed to find it
\* after both wildcard targets of its file had failed.
NotFoundErrorWitness ==
    \E r \in RequestIds :
        /\ lastCall[r] # <<>>
        /\ lastCall[r][1].call.pc = "loop"
        /\ lastCall[r][1].depth > 1
        /\ Len(lastCall[r][1].call.caught) = 2
        /\ lastCall[r][1].completion.value.kind = "CouldNotLoad"
        /\ lastCall[r][1].call.ref.localName # request[r][1].ref.localName

-----------------------------------------------------------------------------
\* The statement is a source-less `export { ... }` that exports `name`.
ExportsWithoutSource(statement, name) ==
    /\ statement.type = "ExportNamedDeclaration"
    /\ statement.declaration = <<>>
    /\ statement.source = <<>>
    /\ \E i \in DOMAIN statement.specifiers : statement.specifiers[i].exported = name

\* The statement declares a class or an interface (exported or not) named otherwise.
DeclaresAnother(statement, name) ==
    \/ statement.type \in {"ClassDeclaration", "TSInterfaceDeclaration"}
            /\ statement.id \notin {name, NoId}
    \/ /\ statement.type = "ExportNamedDeclaration"
       /\ statement.declaration # <<>>
       /\ statement.declaration[1].id \notin {name, NoId}

\* The file offers `name` through a source-less export binding and nothing else.
OnlyExportedUnknown(fileName, name) ==
    /\ IsParsed(fileName)
    /\ \E i \in DOMAIN AstOf(fileName) : ExportsWithoutSource(AstOf(fileName)[i], name)
    /\ \A i \in DOMAIN AstOf(fileName) :
            \/ ExportsWithoutSource(AstOf(fileName)[i], name)
            \/ DeclaresAnother(AstOf(fileName)[i], name)

\* C6: a name that its file exports only through a source-less
\* `export { A as B }` is not resolved through that binding: the call follows
\* nothing and fails with the not-found error, also when A is a class of the file.
UnknownsNeverConsulted ==
    \A r \in RequestIds :
        /\ \A k \in DOMAIN stack[r] :
                OnlyExportedUnknown(stack[r][k].ref.fileName, stack[r][k].ref.localName)
                    => stack[r][k].pc = "parse"
        /\ (lastCall[r] # <<>> /\ OnlyExportedUnknown(lastCall[r][1].call.ref.fileName,
                                                     lastCall[r][1].call.ref.localName)) =>
                /\ lastCall[r][1].call.pc = "parse"
                /\ ~lastCall[r][1].completion.ok
                /\ lastCall[r][1].completion.value.kind = "CouldNotLoad"

\* A call for B failed in a file that holds `class A` and `export { A as B }`.
UnknownsNeverConsultedWitness ==
    \E r \in RequestIds :
        /\ lastCall[r] # <<>>
        /\ LET call == lastCall[r][1].call IN
            /\ OnlyExportedUnknown(call.ref.fileName, call.ref.localName)
            /\ LET el == ElementsOf(call.ref.fileName) IN
                el.exportedUnknowns[call.ref.localName]
                    \in DOMAIN el.declaredClasses \cup DOMAIN el.exportedClasses
        /\ lastCall[r][1].completion.value.kind = "CouldNotLoad"

-----------------------------------------------------------------------------
\* C7: every request terminates, also over files whose imports and re-exports
\* form a cycle.  Resolution is a function of the reference, the flag and the
\* parsed files, so a call nested in a call for the same reference repeats it
\* without end: a request terminates only if no reference is pending twice.
ResolveTerminates ==
    \A r \in RequestIds :
        \A j, k \in DOMAIN stack[r] :
            (j < k) =>
                ~ /\ stack[r][j].ref.fileName = stack[r][k].ref.fileName
                  /\ stack[r][j].ref.localName = stack[r][k].ref.localName

-----------------------------------------------------------------------------
(* getClassElements on its own: one statement of ast.body at a time.       *)

MaxStatements == 2

ExtractFiles == {<<"lib", "a">>, <<"index">>, <<"lib", "sub", "d">>}

ExtractStatements ==
    {ExportClass(n) : n \in Names \cup {NoId}}
    \cup {ExportInterface(n) : n \in Names}
    \cup {ClassDeclaration(n) : n \in Names}
    \cup {TSInterfaceDeclaration(n) : n \in Names}
    \cup {ExportNamedDeclaration(<<>>, source, specifiers) :
            source \in {Literal(m) : m \in ModuleSpecifiers} \cup {<<>>},
            specifiers \in {<<ExportSpecifier("A", "B")>>,
                            <<ExportSpecifier("A", "A"), ExportSpecifier("B", "A")>>}}
    \cup {ExportAll(m) : m \in ModuleSpecifiers}
    \cup {ImportDeclaration(Literal(m), specifiers) :
            m \in ModuleSpecifiers,
            specifiers \in {<<ImportSpecifier("A", "B")>>,
                            <<ImportDefaultSpecifier("A"), ImportSpecifier("B", "B")>>}}
    \cup {ExportNamedDeclaration(<<VariableDeclaration>>, <<>>, <<>>),
          ExportDefaultDeclaration(<<ClassDeclaration(NoId)>>),
          VariableDeclaration}

ExtractBodies == UNION {[1..n -> ExtractStatements] : n \in 0..MaxStatements}

InitExtraction ==
    /\ exFile \in ExtractFiles
    /\ exBody \in ExtractBodies
    /\ exPos = 0
    /\ exElements = NoElements
    /\ exPrev = NoElements
    /\ exError = <<>>
    /\ InitResolver /\ InitHeritage /\ InitChain

\* One turn of the loop of getClassElements that ends normally.
ClassifyNext ==
    /\ exError = <<>>
    /\ exPos < Len(exBody)
    /\ LET one == ClassifyStatement(exElements, exFile, exBody[exPos + 1]) IN
        /\ one.error = <<>>
        /\ exPrev' = exElements
        /\ exElements' = one.elements
        /\ exPos' = exPos + 1
    /\ UNCHANGED <<exFile, exBody, exError, resolverVars, heritage, chainVars>>

\* The turn that throws: getClassElements ends without a result.
ThrowMissingClassName ==
    /\ exError = <<>>
    /\ exPos < Len(exBody)
    /\ LET one == ClassifyStatement(exElements, exFile, exBody[exPos + 1]) IN
        /\ one.error # <<>>
        /\ exError' = one.error
    /\ UNCHANGED <<exFile, exBody, exPos, exElements, exPrev, resolverVars, heritage,
                   chainVars>>

NextExtraction == ClassifyNext \/ ThrowMissingClassName

SpecExtraction == InitExtraction /\ [][NextExtraction]_vars

-----------------------------------------------------------------------------
Categories ==
    {"exportedClasses", "exportedInterfaces", "exportedImportedElements",
     "exportedImportedAll", "exportedUnknowns", "declaredClasses", "declaredInterfaces",
     "importedElements"}

\* What './b', './c' and '../lib/a' name when written in each of the files.
ResolvedFrom(fileName, m) ==
    CASE fileName = <<"lib", "a">> ->
            (CASE m = <<".", "b">> -> <<"lib", "b">>
               [] m = <<".", "c">> -> <<"lib", "c">>
               [] OTHER -> <<"lib", "a">>)
      [] fileName = <<"index">> ->
            (CASE m = <<".", "b">> -> <<"b">>
               [] m = <<".", "c">> -> <<"c">>
               [] OTHER -> <<"..", "lib", "a">>)
      [] OTHER ->
            (CASE m = <<".", "b">> -> <<"lib", "sub", "b">>
               [] m = <<".", "c">> -> <<"lib", "sub", "c">>
               [] OTHER -> <<"lib", "lib", "a">>)

IsExportOf(statement, type) ==
    /\ statement.type = "ExportNamedDeclaration"
    /\ statement.declaration # <<>>
    /\ statement.declaration[1].type = type

IsSpecifierExport(statement) ==
    /\ statement.type = "ExportNamedDeclaration"
    /\ ~IsExportOf(statement, "ClassDeclaration")
    /\ ~IsExportOf(statement, "TSInterfaceDeclaration")

\* The one category the documented rules file the statement under ("" for none).
CategoryOf(statement) ==
    CASE IsExportOf(statement, "ClassDeclaration") -> "exportedClasses"
      [] IsExportOf(statement, "TSInterfaceDeclaration") -> "exportedInterfaces"
      [] IsSpecifierExport(statement) /\ statement.source # <<>> -> "exportedImportedElements"
      [] IsSpecifierExport(statement) /\ statement.source = <<>> -> "exportedUnknowns"
      [] statement.type = "ExportAllDeclaration" -> "exportedImportedAll"
      [] statement.type = "ClassDeclaration" -> "declaredClasses"
      [] statement.type = "TSInterfaceDeclaration" -> "declaredInterfaces"
      [] statement.type = "ImportDeclaration" -> "importedElements"
      [] OTHER -> ""

\* `now` is `before` with the keys set to their values and nothing else changed.
SetsExactly(before, now, keys, valueOf(_)) ==
    /\ DOMAIN now = DOMAIN before \cup keys
    /\ \A k \in DOMAIN now : now[k] = (IF k \in keys THEN valueOf(k) ELSE before[k])

\* The last specifier of the list that binds `key` (the later one wins).
LastBinding(specifiers, key, keyOf(_)) ==
    specifiers[CHOOSE i \in DOMAIN specifiers :
                    /\ keyOf(specifiers[i]) = key
                    /\ \A j \in DOMAIN specifiers : keyOf(specifiers[j]) = key => j <= i]

ExportedName(specifier) == specifier.exported

LocalName(specifier) == specifier.local

\* What the statement just classified has added, by its form.
AddedAsDocumented(fileName, statement, before, now) ==
    LET category == CategoryOf(statement)
        named == {i \in DOMAIN statement.specifiers :
                    statement.specifiers[i].type = "ImportSpecifier"}
        imports == [i \in 1..Cardinality(named) |->
                        statement.specifiers[CHOOSE j \in named :
                            Cardinality({k \in named : k < j}) = i - 1]]
    IN
    /\ \A c \in Categories \ {category} : now[c] = before[c]
    /\ CASE category \in {"exportedClasses", "exportedInterfaces"} ->
                LET declared(k) == statement.declaration[1] IN
                SetsExactly(before[category], now[category],
                            {statement.declaration[1].id}, declared)
         [] category \in {"declaredClasses", "declaredInterfaces"} ->
                LET declared(k) == statement IN
                SetsExactly(before[category], now[category], {statement.id}, declared)
         [] category = "exportedImportedElements" ->
                LET link(k) ==
                        [localName |-> LastBinding(statement.specifiers, k, ExportedName).local,
                         fileName |-> ResolvedFrom(fileName, statement.source[1].value)]
                IN SetsExactly(before[category], now[category],
                               {statement.specifiers[i].exported :
                                    i \in DOMAIN statement.specifiers}, link)
         [] category = "exportedUnknowns" ->
                LET local(k) == LastBinding(statement.specifiers, k, ExportedName).local
                IN SetsExactly(before[category], now[category],
                               {statement.specifiers[i].exported :
                                    i \in DOMAIN statement.specifiers}, local)
         [] category = "exportedImportedAll" ->
                now[category] =
                    Append(before[category], ResolvedFrom(fileName, statement.source[1].value))
         [] category = "importedElements" ->
                LET link(k) ==
                        [localName |-> LastBinding(imports, k, LocalName).imported,
                         fileName |-> ResolvedFrom(fileName, statement.source[1].value)]
                IN SetsExactly(before[category], now[category],
                               {imports[i].local : i \in DOMAIN imports}, link)
         [] OTHER -> TRUE

IsUnnamedExportedClass(statement) ==
    IsExportOf(statement, "ClassDeclaration") /\ statement.declaration[1].id = NoId

\* C10: each top-level statement is filed under the one category its form names
\* (export class, export interface, re-export with a source, source-less
\* re-export, export *, declared class or interface, import) with the documented
\* entries, the module resolved against the file's directory, and leaves every
\* other category as it was; an exported class without a name ends the
\* extraction with an error and without elements.
ExtractionClassifies ==
    /\ exPos >= 1 =>
            AddedAsDocumented(exFile, exBody[exPos], exPrev, exElements)
    /\ \A i \in 1..exPos : ~IsUnnamedExportedClass(exBody[i])
    /\ exError # <<>> =>
            /\ IsUnnamedExportedClass(exBody[exPos + 1])
            /\ exError[1].kind = "ExportParsingFailure"
            /\ exError[1].fileName = exFile
            /\ GetClassElements(exFile, exBody) = [elements |-> <<>>, error |-> exError]
    /\ (exError = <<>> /\ exPos = Len(exBody)) =>
            GetClassElements(exFile, exBody) = [elements |-> exElements, error |-> <<>>]

\* Entries had been collected when an exported class without a name ended the pass.
ExtractionClassifiesWitness ==
    /\ exError # <<>>
    /\ exPos = 1
    /\ exElements.exportedImportedElements # EmptyRecord

-----------------------------------------------------------------------------
(* getSuperClassName and getSuperInterfaceNames.                           *)

TSInterfaceHeritage(expression, loc) ==
    [type |-> "TSInterfaceHeritage", expression |-> expression, loc |-> loc]

\* As GetSuperClassName, with the `if (declaration.superClass)` test never taken.
GetSuperClassNameOrNothing(declaration, fileName) == Returned(<<>>)

\* The name as <<name>>, <<>> for `undefined`.
GetSuperClassName(declaration, fileName) ==
    IF declaration.superClass = <<>> THEN Returned(<<>>)
    ELSE LET superClass == declaration.superClass[1] IN
         IF superClass.type = "Identifier" THEN Returned(<<superClass.name>>)
         ELSE IF /\ superClass.type = "MemberExpression"
                 /\ superClass.property.type = "Identifier"
                 /\ superClass.object.type = "Identifier"
         THEN Thrown(Error("NamespacedSuperclass", NoId, fileName, superClass.loc, FALSE))
         ELSE Thrown(Error("CouldNotInterpretSuperclass", NoId, fileName, superClass.loc,
                           FALSE))

\* The `.map` over declaration.extends: it throws at the first entry it cannot read.
RECURSIVE MapSuperInterfaces(_, _, _)
MapSuperInterfaces(entries, fileName, names) ==
    IF entries = <<>> THEN Returned(names)
    ELSE LET extendsExpression == Head(entries) IN
         IF /\ extendsExpression.type = "TSInterfaceHeritage"
            /\ extendsExpression.expression.type = "Identifier"
         THEN MapSuperInterfaces(Tail(entries), fileName,
                                 Append(names, extendsExpression.expression.name))
         ELSE Thrown(Error("CouldNotInterpretSuperInterface", NoId, fileName,
                           extendsExpression.loc, FALSE))

\* As MapSuperInterfaces, with the entries it cannot read left out.
RECURSIVE FilterSuperInterfaces(_, _, _)
FilterSuperInterfaces(entries, fileName, names) ==
    IF entries = <<>> THEN Returned(names)
    ELSE LET extendsExpression == Head(entries) IN
         IF /\ extendsExpression.type = "TSInterfaceHeritage"
            /\ extendsExpression.expression.type = "Identifier"
         THEN FilterSuperInterfaces(Tail(entries), fileName,
                                    Append(names, extendsExpression.expression.name))
         ELSE FilterSuperInterfaces(Tail(entries), fileName, names)

GetSuperInterfaceNamesSkipping(declaration, fileName) ==
    FilterSuperInterfaces(declaration.extends, fileName, <<>>)

GetSuperInterfaceNames(declaration, fileName) ==
    MapSuperInterfaces(declaration.extends, fileName, <<>>)

MaxExtends == 2

HeritageLocs == {Loc(1, 16), Loc(3, 4)}

SuperClasses ==
    {<<>>}
    \cup {<<Identifier(n, loc)>> : n \in Names, loc \in HeritageLocs}
    \cup {<<MemberExpression(object, property, loc)>> :
            object \in {"Identifier", "MemberExpression"},
            property \in {"Identifier", "PrivateIdentifier"},
            loc \in HeritageLocs}
    \cup {<<CallExpression(loc)>> : loc \in HeritageLocs}

SuperInterfaces ==
    {TSInterfaceHeritage(Identifier(n, loc), loc) : n \in Names, loc \in HeritageLocs}
    \cup {TSInterfaceHeritage(MemberExpression("Identifier", "Identifier", loc), loc) :
            loc \in HeritageLocs}

HeritageDeclarations ==
    {[ClassDeclaration("A") EXCEPT !.superClass = superClass] : superClass \in SuperClasses}
    \cup {[TSInterfaceDeclaration("A") EXCEPT !.extends = extends] :
            extends \in UNION {[1..n -> SuperInterfaces] : n \in 0..MaxExtends}}

InitHeritageCall ==
    /\ heritage \in {<<[fileName |-> f, declaration |-> d, result |-> <<>>]>> :
                        f \in Files, d \in HeritageDeclarations}
    /\ InitResolver /\ InitExtract /\ InitChain

CallGetSuperClassName ==
    /\ heritage[1].result = <<>>
    /\ heritage[1].declaration.type = "ClassDeclaration"
    /\ heritage' = <<[heritage[1] EXCEPT !.result =
                        <<GetSuperClassName(heritage[1].declaration, heritage[1].fileName)>>]>>
    /\ UNCHANGED <<resolverVars, extractVars, chainVars>>

CallGetSuperInterfaceNames ==
    /\ heritage[1].result = <<>>
    /\ heritage[1].declaration.type = "TSInterfaceDeclaration"
    /\ heritage' = <<[heritage[1] EXCEPT !.result =
                        <<GetSuperInterfaceNames(heritage[1].declaration,
                                                 heritage[1].fileName)>>]>>
    /\ UNCHANGED <<resolverVars, extractVars, chainVars>>

NextHeritage == CallGetSuperClassName \/ CallGetSuperInterfaceNames

SpecHeritage == InitHeritageCall /\ [][NextHeritage]_vars

-----------------------------------------------------------------------------
ThrownAt(completion, fileName, loc) ==
    /\ ~completion.ok
    /\ completion.value.fileName = fileName
    /\ completion.value.line = loc.line
    /\ completion.value.column = loc.column

IsBareIdentifier(entry) == entry.expression.type = "Identifier"

\* C8: getSuperClassName gives nothing for a class without superclass, the name
\* for a bare identifier, and otherwise throws with the file, line and column of
\* the clause; getSuperInterfaceNames gives the names of all `extends` entries in
\* order when each is a bare identifier, and otherwise throws (no partial list)
\* with the place of the first entry that is not.
HeritageNeverSkipped ==
    (heritage # <<>> /\ heritage[1].result # <<>>) =>
        LET declaration == heritage[1].declaration
            fileName == heritage[1].fileName
            result == heritage[1].result[1]
        IN
        IF declaration.type = "ClassDeclaration"
        THEN IF declaration.superClass = <<>> THEN result = Returned(<<>>)
             ELSE IF declaration.superClass[1].type = "Identifier"
                  THEN result = Returned(<<declaration.superClass[1].name>>)
                  ELSE ThrownAt(result, fileName, declaration.superClass[1].loc)
        ELSE LET entries == declaration.extends
                 unread == {i \in DOMAIN entries : ~IsBareIdentifier(entries[i])}
             IN IF unread = {}
                THEN result = Returned([i \in DOMAIN entries |-> entries[i].expression.name])
                ELSE ThrownAt(result, fileName,
                              entries[CHOOSE i \in unread : \A j \in unread : i <= j].loc)

\* getSuperInterfaceNames threw at the second of two entries, the first being a
\* bare identifier.
HeritageNeverSkippedWitness ==
    /\ heritage # <<>>
    /\ heritage[1].result # <<>>
    /\ heritage[1].declaration.type = "TSInterfaceDeclaration"
    /\ Len(heritage[1].declaration.extends) = 2
    /\ IsBareIdentifier(heritage[1].declaration.extends[1])
    /\ ~heritage[1].result[1].ok
    /\ heritage[1].declaration.extends[1].loc # heritage[1].declaration.extends[2].loc

-----------------------------------------------------------------------------
(* The hierarchy builder: buildChain over the resolver, with the visited   *)
(* set keyed by (fileName, localName).                                     *)

ChainKey(loaded) == <<loaded.fileName, loaded.localName>>

Visited == {ChainKey(chain[i]) : i \in DOMAIN chain}

\* The resolution buildChain is waiting for has settled.
Awaited == chainResult = <<>> /\ outcome["first"] # <<>>

Resolved == outcome["first"][1].value

\* The awaited symbol is new: it joins the chain before its heritage is read.
Visits ==
    /\ Awaited
    /\ outcome["first"][1].ok
    /\ ChainKey(Resolved) \notin Visited
    /\ chain' = Append(chain, Resolved)

FailUnresolved ==
    /\ Awaited
    /\ ~outcome["first"][1].ok
    /\ chainResult' = outcome["first"]
    /\ UNCHANGED <<resolverVars, extractVars, heritage, chain>>

FailCyclic ==
    /\ Awaited
    /\ outcome["first"][1].ok
    /\ ChainKey(Resolved) \in Visited
    /\ chainResult' = <<Thrown(Error("CyclicHierarchy", Resolved.localName,
                                     Resolved.fileName, NoLoc, FALSE))>>
    /\ UNCHANGED <<resolverVars, extractVars, heritage, chain>>

FailHeritage ==
    /\ Visits
    /\ ~GetSuperClassName(Resolved.declaration, Resolved.fileName).ok
    /\ chainResult' = <<GetSuperClassName(Resolved.declaration, Resolved.fileName)>>
    /\ UNCHANGED <<resolverVars, extractVars, heritage>>

FinishChain ==
    /\ Visits
    /\ GetSuperClassName(Resolved.declaration, Resolved.fileName) = Returned(<<>>)
    /\ chainResult' = <<Returned(chain')>>
    /\ UNCHANGED <<resolverVars, extractVars, heritage>>

\* The superclass is resolved relative to the file of the class that names it.
ExtendChain ==
    /\ Visits
    /\ LET superClassName == GetSuperClassName(Resolved.declaration, Resolved.fileName) IN
        /\ superClassName.ok
        /\ superClassName.value # <<>>
        /\ LET classReference == LinkReference(superClassName.value[1], Resolved.fileName) IN
            /\ request' = [request EXCEPT !["first"] =
                                <<[ref |-> classReference, ci |-> FALSE]>>]
            /\ stack' = [stack EXCEPT !["first"] = <<Call(classReference, FALSE)>>]
    /\ outcome' = [outcome EXCEPT !["first"] = <<>>]
    /\ UNCHANGED <<cache, ret, lastCall, extractVars, heritage, chainResult>>

BuildChainStep ==
    \/ FailUnresolved
    \/ FailCyclic
    \/ FailHeritage
    \/ FinishChain
    \/ ExtendChain

ClassExtends(n, m) ==
    [ClassDeclaration(n) EXCEPT !.superClass = <<Identifier(m, Loc(1, 16))>>]

ClassExtendsNamespaced(n) ==
    [ClassDeclaration(n) EXCEPT
        !.superClass = <<MemberExpression("Identifier", "Identifier", Loc(1, 16))>>]

ChainClasses ==
    {ClassExtends("A", "B"), ClassExtends("B", "A"), ClassExtends("A", "A"),
     ClassDeclaration("B"), ClassExtendsNamespaced("A")}

ChainLinks ==
    {ImportFrom("B", "B", <<".", "b">>), ImportFrom("A", "A", <<"..", "lib", "a">>),
     ExportFrom("B", "B", <<".", "b">>), ExportAll(<<".", "b">>)}

ChainSources ==
    {<<>>, <<ExportClass(NoId)>>}
    \cup {<<c>> : c \in ChainClasses}
    \cup {<<c, l>> : c \in ChainClasses, l \in ChainLinks}

NextChain ==
    \/ \E ref \in StartReferences : LoadClassDeclaration("first", ref, FALSE)
    \/ ParseTypescriptFile("first", ChainSources)
    \/ ResolverStep("first")
    \/ BuildChainStep

SpecChain == Init /\ [][NextChain]_vars

-----------------------------------------------------------------------------
ExtendsIdentifier(loaded) ==
    /\ loaded.declaration.superClass # <<>>
    /\ loaded.declaration.superClass[1].type = "Identifier"

\* a.ts `class A extends B`, b.ts `class B extends A`, each importing the other.
CyclicPair ==
    /\ cache[<<"lib", "a">>] =
            <<Parsed(<<ClassExtends("A", "B"), ImportFrom("B", "B", <<".", "b">>)>>)>>
    /\ cache[<<"lib", "b">>] =
            <<Parsed(<<ClassExtends("B", "A"),
                       ImportFrom("A", "A", <<"..", "lib", "a">>)>>)>>

-----------------------------------------------------------------------------
(* collectGenericTypes on the symbols loadClassDeclaration returns.        *)

\* `T` or `T extends Foo`: the constraint is <<>> where there is no bound.
TSTypeParameter(name, constraint) ==
    [type |-> "TSTypeParameter", name |-> name, constraint |-> constraint]

TSTypeParameterDeclaration(params) ==
    <<[type |-> "TSTypeParameterDeclaration", params |-> params]>>

MaxTypeParameters == 2

TypeParameterNames == {"T", "U"}

TypeParameters ==
    {TSTypeParameter(n, c) : n \in TypeParameterNames,
                             c \in {<<>>, <<[type |-> "TSTypeReference", typeName |-> "Foo"]>>}}

TypeParameterLists ==
    {<<>>} \cup {TSTypeParameterDeclaration(params) :
                    params \in UNION {[1..n -> TypeParameters] : n \in 1..MaxTypeParameters}}

GenericDeclarations ==
    {ExportNamedDeclaration(<<[ClassDeclaration("A") EXCEPT !.typeParameters = t]>>,
                            <<>>, <<>>) : t \in TypeParameterLists}
    \cup {[TSInterfaceDeclaration("A") EXCEPT !.typeParameters = t] : t \in TypeParameterLists}

GenericSources ==
    {<<>>, <<ExportClass(NoId)>>, <<ExportAll(<<".", "b">>)>>,
     <<ImportFrom("A", "A", <<".", "b">>)>>, <<ExportFrom("A", "A", <<".", "b">>)>>}
    \cup {<<d>> : d \in GenericDeclarations}

GenericReferences == {ClassReference("pkg", "A", <<"lib", "a">>, <<"lib", "a">>)}

NextGenerics ==
    \/ \E ref \in GenericReferences, ci \in BOOLEAN : LoadClassDeclaration("first", ref, ci)
    \/ ParseTypescriptFile("first", GenericSources)
    \/ ResolverStep("first")

SpecGenerics == Init /\ [][NextGenerics]_vars

-----------------------------------------------------------------------------
\* The type parameters a declaration declares, in order.
DeclaredParams(declaration) ==
    IF declaration.typeParameters = <<>> THEN <<>> ELSE declaration.typeParameters[1].params

HasLoaded == outcome["first"] # <<>> /\ outcome["first"][1].ok

\* C11 as stated: the generics map of a loaded symbol has one entry for each
\* declared type parameter (none without a type-parameter list), and the entry of
\* a parameter has no constraint exactly when the parameter declares no bound.
GenericsPerParameter ==
    HasLoaded =>
        LET loaded == outcome["first"][1].value
            params == DeclaredParams(loaded.declaration)
        IN
        /\ Cardinality(DOMAIN loaded.generics) = Len(params)
        /\ \A i \in DOMAIN params :
            /\ params[i].name \in DOMAIN loaded.generics
            /\ loaded.generics[params[i].name].type = <<>> <=> params[i].constraint = <<>>

\* C11 as amended: the generics map has one entry for each distinct declared
\* type-parameter name (none without a type-parameter list), holding the
\* constraint of the last parameter declared under that name, which is absent
\* exactly when that parameter declares no bound.
GenericsPerName ==
    HasLoaded =>
        LET loaded == outcome["first"][1].value
            params == DeclaredParams(loaded.declaration)
        IN
        /\ DOMAIN loaded.generics = {params[i].name : i \in DOMAIN params}
        /\ \A i \in DOMAIN params :
            (\A j \in DOMAIN params : params[j].name = params[i].name => j <= i) =>
                /\ loaded.generics[params[i].name] = [type |-> params[i].constraint]
                /\ loaded.generics[params[i].name].type = <<>>
                        <=> params[i].constraint = <<>>

\* An interface reached through a link was loaded with two type parameters, the
\* first bounded and the second not.
GenericsPerNameWitness ==
    /\ HasLoaded
    /\ outcome["first"][1].value.type = "interface"
    /\ outcome["first"][1].value.fileName = <<"lib", "b">>
    /\ LET params == DeclaredParams(outcome["first"][1].value.declaration) IN
        /\ Len(params) = 2
        /\ params[1].name # params[2].name
        /\ params[1].constraint # <<>>
        /\ params[2].constraint = <<>>
        /\ outcome["first"][1].value.generics[params[1].name].type # <<>>

-----------------------------------------------------------------------------
(* Two requests on one loader, interleaved call by call.                   *)

ReentrantSources ==
    {<<>>, <<ExportClass(NoId)>>, <<ExportClass("A")>>, <<TSInterfaceDeclaration("A")>>,
     <<ImportFrom("A", "A", <<".", "b">>)>>, <<ExportFrom("A", "A", <<".", "c">>)>>,
     <<ExportAll(<<".", "b">>), ExportAll(<<".", "c">>)>>}

ReentrantReferences ==
    {ClassReference("pkg", "A", f, f) : f \in {<<"lib", "a">>, <<"lib", "b">>}}

NextReentrant ==
    \E r \in RequestIds :
        \/ \E ref \in ReentrantReferences, ci \in BOOLEAN : LoadClassDeclaration(r, ref, ci)
        \/ ParseTypescriptFile(r, ReentrantSources)
        \/ ResolverStep(r)

SpecReentrant == Init /\ [][NextReentrant]_vars

-----------------------------------------------------------------------------
\* What a call gives when nothing else runs on the loader: loadClassDeclaration
\* read as a recursive function of the parsed files. `fuel` bounds the depth of
\* the calls; a call that needs more, or a file not parsed, gives Unsettled.
Unsettled(classReference, considerInterfaces) ==
    Thrown(Error("Unsettled", classReference.localName, classReference.fileName, NoLoc,
                 considerInterfaces))

RECURSIVE ResolveAlone(_, _, _)
RECURSIVE FirstLoadedAlone(_, _, _, _)

FirstLoadedAlone(subFiles, localName, considerInterfaces, fuel) ==
    IF subFiles = <<>> THEN <<>>
    ELSE LET nested == ResolveAlone(LinkReference(localName, Head(subFiles)),
                                    considerInterfaces, fuel)
         IN IF nested.ok THEN <<nested>>
            ELSE FirstLoadedAlone(Tail(subFiles), localName, considerInterfaces, fuel)

ResolveAlone(classReference, considerInterfaces, fuel) ==
    IF fuel = 0 \/ cache[classReference.fileName] = <<>>
    THEN Unsettled(classReference, considerInterfaces)
    ELSE IF ~cache[classReference.fileName][1].ok
    THEN Thrown(Error("ParseError", NoId, classReference.fileName, NoLoc, FALSE))
    ELSE
    LET ast == AstOf(classReference.fileName)
        extracted == GetClassElements(classReference.fileName, ast)
        el == extracted.elements
        localName == classReference.localName
    IN
    IF extracted.error # <<>> THEN Thrown(extracted.error[1])
    ELSE IF localName \in DOMAIN el.exportedClasses
    THEN Returned(Loaded("class", classReference, el.exportedClasses[localName], ast))
    ELSE IF localName \in DOMAIN el.declaredClasses
    THEN Returned(Loaded("class", classReference, el.declaredClasses[localName], ast))
    ELSE IF considerInterfaces /\ localName \in DOMAIN el.exportedInterfaces
    THEN Returned(Loaded("interface", classReference, el.exportedInterfaces[localName], ast))
    ELSE IF considerInterfaces /\ localName \in DOMAIN el.declaredInterfaces
    THEN Returned(Loaded("interface", classReference, el.declaredInterfaces[localName], ast))
    ELSE IF localName \in DOMAIN el.importedElements
    THEN ResolveAlone(LinkReference(el.importedElements[localName].localName,
                                    el.importedElements[localName].fileName),
                      considerInterfaces, fuel - 1)
    ELSE IF localName \in DOMAIN el.exportedImportedElements
    THEN ResolveAlone(LinkReference(el.exportedImportedElements[localName].localName,
                                    el.exportedImportedElements[localName].fileName),
                      considerInterfaces, fuel - 1)
    ELSE LET found == FirstLoadedAlone(el.exportedImportedAll, localName,
                                       considerInterfaces, fuel - 1)
         IN IF found # <<>> THEN found[1]
            ELSE Thrown(Error("CouldNotLoad", localName, classReference.fileName, NoLoc,
                              considerInterfaces))

\* C12: with two requests interleaved on one loader, every call that completes,
\* nested or outermost, completes with what the same call gives when run alone
\* on the same files, and so does every settled request, whatever the other
\* request did or failed with before or meanwhile.
Reentrant ==
    \A r \in RequestIds :
        /\ ret[r] # <<>> =>
            ret[r][1] = ResolveAlone(lastCall[r][1].call.ref, lastCall[r][1].call.ci,
                                     MaxDepth)
        /\ outcome[r] # <<>> =>
            outcome[r][1] = ResolveAlone(request[r][1].ref, request[r][1].ci, MaxDepth)

\* Both requests are in flight at once: a nested call of one has just failed
\* and a nested call of the other, asking from another file, has just succeeded.
ReentrantWitness ==
    \E r, q \in RequestIds :
        /\ r # q
        /\ stack[r] # <<>> /\ stack[q] # <<>>
        /\ ret[r] # <<>> /\ ret[q] # <<>>
        /\ ~ret[r][1].ok
        /\ ret[q][1].ok
        /\ request[r][1].ref # request[q][1].ref

-----------------------------------------------------------------------------
\* C13: the errors the wildcard loop of a call swallows are class-not-found
\* failures of its targets only; a parse failure or a missing exported class
\* name met while loading a target is never among them, so it reaches the caller.
OnlyNotFoundSuppressed ==
    \A r \in RequestIds :
        /\ \A k \in DOMAIN stack[r] :
            \A c \in DOMAIN stack[r][k].caught :
                stack[r][k].caught[c].value.kind = "CouldNotLoad"
        /\ lastCall[r] # <<>> =>
            \A c \in DOMAIN lastCall[r][1].call.caught :
                lastCall[r][1].call.caught[c].value.kind = "CouldNotLoad"

-----------------------------------------------------------------------------
(* Files in which a binding of the name stands beside other places for it.  *)

BindingSources ==
    {<<>>, <<ExportClass(NoId)>>, <<ExportClass("A")>>, <<TSInterfaceDeclaration("A")>>,
     <<ExportClass("B")>>, <<ImportFrom("B", "A", <<".", "c">>)>>,
     <<ImportFrom("A", "A", <<".", "b">>), ExportAll(<<".", "c">>)>>,
     <<ImportFrom("B", "A", <<".", "b">>), ExportFrom("A", "A", <<".", "c">>)>>,
     <<ExportFrom("A", "A", <<".", "b">>), ExportAll(<<".", "c">>)>>,
     <<TSInterfaceDeclaration("A"), ImportFrom("A", "A", <<".", "c">>)>>,
     <<ExportAll(<<".", "b">>), ExportAll(<<".", "c">>)>>}

NextBinding ==
    \/ \E ref \in StartReferences, ci \in BOOLEAN : LoadClassDeclaration("first", ref, ci)
    \/ ParseTypescriptFile("first", BindingSources)
    \/ ResolverStep("first")

SpecBinding == Init /\ [][NextBinding]_vars

-----------------------------------------------------------------------------
\* The call finds no local declaration of the name and finds an import binding
\* or, failing that, a named re-export of it.
ReachesBinding(call) ==
    /\ Extracts(call.ref.fileName)
    /\ DocumentedPlace(call) \in {"importedElements", "exportedImportedElements"}

\* The reference the binding names.
BoundTarget(call) ==
    LET el == ElementsOf(call.ref.fileName)
        link == IF call.ref.localName \in DOMAIN el.importedElements
                THEN el.importedElements[call.ref.localName]
                ELSE el.exportedImportedElements[call.ref.localName]
    IN LinkReference(link.localName, link.fileName)

\* C14: a call that reaches an import binding of the name or, failing that, a
\* named re-export of it, does nothing but resolve the bound reference: while
\* pending it waits for that one nested call, with no wildcard target tried and
\* no error swallowed, and it completes with exactly what resolving the bound
\* reference gives, a failure included.
BindingCommits ==
    \A r \in RequestIds :
        /\ \A k \in DOMAIN stack[r] :
            LET call == stack[r][k] IN
            (call.pc # "parse" /\ ReachesBinding(call)) =>
                /\ call.pc = (IF DocumentedPlace(call) = "importedElements"
                              THEN "import" ELSE "exportedImport")
                /\ call.i = 0
                /\ call.caught = <<>>
                /\ HasNested(r, k) => stack[r][k + 1].ref = BoundTarget(call)
        /\ lastCall[r] # <<>> =>
            LET last == lastCall[r][1] IN
            ReachesBinding(last.call) =>
                /\ last.call.pc \in {"import", "exportedImport"}
                /\ last.call.caught = <<>>
                /\ last.completion = ResolveAlone(BoundTarget(last.call), last.call.ci,
                                                  MaxDepth)

\* A call failed because its import failed, although the first `export *` target
\* of the same file has the name.
BindingCommitsWitness ==
    \E r \in RequestIds :
        /\ lastCall[r] # <<>>
        /\ lastCall[r][1].call.pc = "import"
        /\ ~lastCall[r][1].completion.ok
        /\ LET call == lastCall[r][1].call
               subFiles == ElementsOf(call.ref.fileName).exportedImportedAll
           IN /\ subFiles # <<>>
              /\ ResolveAlone(LinkReference(call.ref.localName, subFiles[1]), call.ci,
                              MaxDepth).ok

====
